---- MODULE Spec2Model ----
(***************************************************************************)
(* Vectara financial-analysis dashboard: the REST client (VectaraClient),  *)
(* the session state kept by the Streamlit script and its button handlers. *)
(*                                                                         *)
(* Two programs are modelled, src/app.py (variant "app") and the earlier   *)
(* draft src/app1.py (variant "app1").                                     *)
(*                                                                         *)
(* Text.  A Python string is modelled as the sequence of its words.  An    *)
(* f-string is the concatenation of its literal words and of the values it *)
(* interpolates; punctuation glued to an interpolated value is a word of   *)
(* its own ("({code}):" is "(", code, "):").  str(int) is StatusStr.       *)
(*                                                                         *)
(* Optional values.  None is the empty sequence, any other value v is the  *)
(* one-element sequence <<v>>.                                             *)
(***************************************************************************)
EXTENDS Integers, Sequences, FiniteSets, TLC

VARIABLES
    variant,              \* which program runs: "app" or "app1"
    vectara_client,       \* st.session_state.vectara_client (Optional client)
    connected,            \* st.session_state.connected
    uploaded_files_list,  \* st.session_state.uploaded_files_list
    chat_history,         \* st.session_state.chat_history
    pc,                   \* position of the running handler ("idle": none runs)
    inflight,             \* HTTP requests sent and not yet answered
    call,                 \* the client call being made / made last
    ret,                  \* what that call returned (or raised)
    batch,                \* locals of the upload handler
    extract,              \* locals of the metric extraction
    validated             \* history: the client whose connectivity check
                          \* succeeded last, None after a disconnect

vars == <<variant, vectara_client, connected, uploaded_files_list,
          chat_history, pc, inflight, call, ret, batch, extract, validated>>

(***************************************************************************)
(* Bounds of the model.                                                    *)
(***************************************************************************)
MaxBatch == 3
MaxHistory == 1

(***************************************************************************)
(* Basic values.                                                           *)
(***************************************************************************)
None == <<>>
Some(v) == <<v>>
Range(s) == {s[i] : i \in DOMAIN s}

Variants == {"app", "app1"}

\* what the user may type into the three credential fields
ApiKeys == {"", "zut_key"}
CustomerIds == {"", "123"}
CorpusIds == {"", "7", "hello_world"}

\* file names offered by the file uploader
FileNames == {"q1.pdf", "q2.pdf"}

\* HTTP status codes the remote service may answer
Statuses == {200, 201, 401, 403, 404, 500}

\* response.text: empty, JSON null, an empty JSON object, a JSON object with
\* results, free text
ServerTexts == {<<>>, <<"null">>, <<"{}">>, <<"{results}">>, <<"detail">>}

\* str(e) of the exception requests raises on a network failure
TransportTexts == {<<"timed", "out">>}

\* every outcome of one HTTP call: it raises, or it answers
Outcomes ==
    [kind : {"transport"}, exc : TransportTexts, status : {0}, text : {<<>>}]
    \cup [kind : {"http"}, exc : {<<>>}, status : Statuses, text : ServerTexts]

\* the outcomes the UI flows are explored with
UiOutcomes ==
    {o \in Outcomes :
        \/ o.kind = "transport"
        \/ o.status = 200 /\ o.text \in {<<"{results}">>, <<"null">>}
        \/ o.status = 403 /\ o.text = <<"detail">>}

UiUploadOutcomes == {o \in UiOutcomes : o.text # <<"null">>}

\* str(response.status_code)
StatusStr(code) ==
    CASE code = 200 -> "200"
      [] code = 201 -> "201"
      [] code = 401 -> "401"
      [] code = 403 -> "403"
      [] code = 404 -> "404"
      [] code = 500 -> "500"

\* int(s) of a credential field: the number, or ValueError
IntParses(s) == s \in {"7", "123"}
ValueErrorText(s) == <<"invalid", "literal", "for", "int()", "with", "base", "10:", s>>

\* response.json(): the parsed body, or JSONDecodeError
JsonDecodeErrorText == <<"Expecting", "value:", "line", "1", "column", "1", "(char", "0)">>
JsonParses(text) == text \in {<<"null">>, <<"{}">>, <<"{results}">>}
JsonValue(text) ==
    CASE text = <<"null">> -> None
      [] text = <<"{}">> -> Some([keys |-> {}])
      [] text = <<"{results}">> -> Some([keys |-> {"search_results"}])

\* what a function body does: it returns a value or an exception leaves it
Return(v) == [raised |-> FALSE, val |-> v, exc |-> <<>>]
Raise(e) == [raised |-> TRUE, val |-> <<>>, exc |-> e]

(***************************************************************************)
(* VectaraClient.                                                          *)
(***************************************************************************)
BaseUrl == "https://api.vectara.io/v2"

\* VectaraClient.__init__: app.py sends the customer id as a header, app1.py
\* does not
VectaraClient(v, api_key, customer_id, corpus_id) ==
    [api_key |-> api_key,
     customer_id |-> customer_id,
     corpus_id |-> corpus_id,
     base_url |-> BaseUrl,
     headers |->
        {<<"x-api-key", api_key>>, <<"Content-Type", "application/json">>}
        \cup (IF v = "app" THEN {<<"customer-id", customer_id>>} ELSE {})]

Clients ==
    {VectaraClient(v, k, cu, co) :
        v \in Variants, k \in ApiKeys \ {""}, cu \in CustomerIds \ {""},
        co \in CorpusIds \ {""}}

\* the operations each program's client has
Ops(v) ==
    IF v = "app"
    THEN {"test_connection", "upload_file", "upload_file_v1", "query",
          "list_documents", "check_permissions"}
    ELSE {"upload_file", "query", "list_documents"}

UploadOps == {"upload_file", "upload_file_v1"}

\* ---- the request each operation builds (or the exception building it raises)

CorpusRequest(c) ==
    [method |-> "GET", url |-> <<c.base_url, "/corpora/", c.corpus_id>>,
     headers |-> c.headers, body |-> "none"]

UploadFileRequest(v, c, filename) ==
    IF v = "app"
    THEN [method |-> "POST",
          url |-> <<c.base_url, "/corpora/", c.corpus_id, "/upload_file">>,
          headers |-> {<<"x-api-key", c.api_key>>, <<"customer-id", c.customer_id>>},
          body |-> "multipart"]
    ELSE [method |-> "POST",
          url |-> <<c.base_url, "/corpora/", c.corpus_id, "/documents">>,
          headers |-> c.headers, body |-> "json"]

\* the payload takes int(customer_id) and int(corpus_id): ValueError when one
\* of them is not a number
UploadFileV1Request(c, filename) ==
    IF ~IntParses(c.customer_id) THEN Raise(ValueErrorText(c.customer_id))
    ELSE IF ~IntParses(c.corpus_id) THEN Raise(ValueErrorText(c.corpus_id))
    ELSE Return([method |-> "POST", url |-> <<"https://api.vectara.io/v1/index">>,
                 headers |-> {<<"x-api-key", c.api_key>>,
                              <<"Content-Type", "application/json">>,
                              <<"customer-id", c.customer_id>>},
                 body |-> "json"])

QueryRequest(c) ==
    [method |-> "POST", url |-> <<c.base_url, "/query">>,
     headers |-> c.headers, body |-> "json"]

ListDocumentsRequest(c) ==
    [method |-> "GET", url |-> <<c.base_url, "/corpora/", c.corpus_id, "/documents">>,
     headers |-> c.headers, body |-> "none"]

\* the first request of operation op
OpRequest(v, op, c, filename) ==
    CASE op = "test_connection" -> Return(CorpusRequest(c))
      [] op = "upload_file" -> Return(UploadFileRequest(v, c, filename))
      [] op = "upload_file_v1" -> UploadFileV1Request(c, filename)
      [] op = "query" -> Return(QueryRequest(c))
      [] op = "list_documents" -> Return(ListDocumentsRequest(c))
      [] op = "check_permissions" -> Return(ListDocumentsRequest(c))

\* ---- what each operation makes of the outcome of its HTTP call: first the
\* ---- body of its try block, then the operation with its except clause

\* TestConnectionTry with the 404 branch forgotten
TestConnectionTryNo404(o) ==
    IF o.kind = "transport" THEN Raise(o.exc)
    ELSE IF o.status = 200 THEN Return(<<TRUE, <<"Connection", "successful!">>>>)
    ELSE IF o.status = 403
        THEN Return(<<FALSE, <<"403", "Forbidden", "-", "Check", "your", "API",
                               "key", "and", "permissions">>>>)
    ELSE IF o.status = 401
        THEN Return(<<FALSE, <<"401", "Unauthorized", "-", "Invalid", "API", "key">>>>)
    ELSE Return(<<FALSE, <<"Error", StatusStr(o.status), ":">> \o o.text>>)

TestConnectionTry(o) ==
    IF o.kind = "transport" THEN Raise(o.exc)
    ELSE IF o.status = 200 THEN Return(<<TRUE, <<"Connection", "successful!">>>>)
    ELSE IF o.status = 403
        THEN Return(<<FALSE, <<"403", "Forbidden", "-", "Check", "your", "API",
                               "key", "and", "permissions">>>>)
    ELSE IF o.status = 401
        THEN Return(<<FALSE, <<"401", "Unauthorized", "-", "Invalid", "API", "key">>>>)
    ELSE IF o.status = 404
        THEN Return(<<FALSE, <<"404", "Not", "Found", "-", "Invalid", "Corpus", "ID">>>>)
    ELSE Return(<<FALSE, <<"Error", StatusStr(o.status), ":">> \o o.text>>)

test_connection(o) ==
    LET r == TestConnectionTry(o)
    IN  IF r.raised THEN Return(<<FALSE, <<"Connection", "error:">> \o r.exc>>) ELSE r

\* UploadFileTry taking 200 alone for a success
UploadFileTryOnly200(v, filename, o) ==
    IF o.kind = "transport" THEN Raise(o.exc)
    ELSE IF o.status = 200
        THEN Return(<<TRUE, <<"Successfully", "uploaded:", filename>>>>)
    ELSE Return(<<FALSE, <<"Upload", "failed", "(", StatusStr(o.status), "):">>
                         \o o.text>>)

UploadFileTry(v, filename, o) ==
    IF o.kind = "transport" THEN Raise(o.exc)
    ELSE IF o.status \in {200, 201}
        THEN Return(<<TRUE, <<"Successfully", "uploaded:", filename>>>>)
    ELSE IF v = "app1" THEN Return(<<FALSE, <<"Upload", "failed:">> \o o.text>>)
    ELSE IF o.status = 403
        THEN Return(<<FALSE, <<"403", "Forbidden", "-", "Check", "corpus",
                               "permissions", "for", "uploads.", "Response:">>
                             \o o.text>>)
    ELSE IF o.status = 401
        THEN Return(<<FALSE, <<"401", "Unauthorized", "-", "Invalid", "API", "key.",
                               "Response:">> \o o.text>>)
    ELSE Return(<<FALSE, <<"Upload", "failed", "(", StatusStr(o.status), "):">>
                         \o o.text>>)

UploadExcept(filename, r) ==
    IF r.raised
    THEN Return(<<FALSE, <<"Error", "uploading", filename, ":">> \o r.exc>>)
    ELSE r

upload_file(v, filename, o) == UploadExcept(filename, UploadFileTry(v, filename, o))

UploadFileV1Try(filename, o) ==
    IF o.kind = "transport" THEN Raise(o.exc)
    ELSE IF o.status \in {200, 201}
        THEN Return(<<TRUE, <<"Successfully", "uploaded:", filename>>>>)
    ELSE IF o.status = 403
        THEN Return(<<FALSE, <<"403", "Error", "-", "Your", "API", "key", "doesn't",
                               "have", "INDEX", "permission.", "Check", "API", "key",
                               "settings", "in", "Vectara", "Console.">>>>)
    ELSE Return(<<FALSE, <<"Upload", "failed", "(", StatusStr(o.status), "):">>
                         \o o.text>>)

upload_file_v1(filename, o) == UploadExcept(filename, UploadFileV1Try(filename, o))

\* response.json() inside the try block
JsonOrRaise(o) ==
    IF JsonParses(o.text) THEN Return(<<JsonValue(o.text), None>>)
    ELSE Raise(JsonDecodeErrorText)

QueryTry(v, o) ==
    IF o.kind = "transport" THEN Raise(o.exc)
    ELSE IF o.status = 200 THEN JsonOrRaise(o)
    ELSE IF v = "app1" THEN Return(<<None, Some(<<"Query", "failed:">> \o o.text)>>)
    ELSE IF o.status = 403
        THEN Return(<<None, Some(<<"403", "Forbidden", "-", "Check", "query",
                                   "permissions:">> \o o.text)>>)
    ELSE Return(<<None, Some(<<"Query", "failed", "(", StatusStr(o.status), "):">>
                             \o o.text)>>)

\* query with response.json() outside the reach of its except clause
QueryJsonUncaught(v, o) ==
    LET r == QueryTry(v, o)
    IN  IF r.raised /\ o.kind = "transport"
        THEN Return(<<None, Some(<<"Error", "querying:">> \o r.exc)>>)
        ELSE r

query(v, o) ==
    LET r == QueryTry(v, o)
    IN  IF r.raised THEN Return(<<None, Some(<<"Error", "querying:">> \o r.exc)>>)
        ELSE r

ListDocumentsTry(v, o) ==
    IF o.kind = "transport" THEN Raise(o.exc)
    ELSE IF o.status = 200 THEN JsonOrRaise(o)
    ELSE IF v = "app1"
        THEN Return(<<None, Some(<<"Failed", "to", "list", "documents:">> \o o.text)>>)
    ELSE Return(<<None, Some(<<"Failed", "to", "list", "documents", "(",
                               StatusStr(o.status), "):">> \o o.text)>>)

\* list_documents reporting an exception with the text of its HTTP failures
ListDocumentsSameText(v, o) ==
    LET r == ListDocumentsTry(v, o)
    IN  IF r.raised
        THEN Return(<<None, Some(<<"Failed", "to", "list", "documents:">> \o r.exc)>>)
        ELSE r

list_documents(v, o) ==
    LET r == ListDocumentsTry(v, o)
    IN  IF r.raised
        THEN Return(<<None, Some(<<"Error", "listing", "documents:">> \o r.exc)>>)
        ELSE r

\* CheckPermissionsTry taking every 2xx answer of the corpus check for a yes
CheckPermissionsTryAny2xx(o1, o2) ==
    LET read_test == list_documents("app", o1).val
        can_read == read_test[2] = None
    IN  IF o2.kind = "transport" THEN Raise(o2.exc)
        ELSE Return([can_read |-> can_read,
                     can_view_corpus |-> (o2.status \in {200, 201}),
                     read_error |-> IF ~can_read THEN read_test[2] ELSE None])

\* CheckPermissionsTry leaving read_error out of the report when the listing
\* worked
CheckPermissionsTryNoReadError(o1, o2) ==
    LET read_test == list_documents("app", o1).val
        can_read == read_test[2] = None
    IN  IF o2.kind = "transport" THEN Raise(o2.exc)
        ELSE IF can_read
        THEN Return([can_read |-> can_read,
                     can_view_corpus |-> (o2.status = 200)])
        ELSE Return([can_read |-> can_read,
                     can_view_corpus |-> (o2.status = 200),
                     read_error |-> read_test[2]])

\* check_permissions: o1 answers its list_documents call, o2 its corpus check
CheckPermissionsTry(o1, o2) ==
    LET read_test == list_documents("app", o1).val
        can_read == read_test[2] = None
    IN  IF o2.kind = "transport" THEN Raise(o2.exc)
        ELSE Return([can_read |-> can_read,
                     can_view_corpus |-> (o2.status = 200),
                     read_error |-> IF ~can_read THEN read_test[2] ELSE None])

check_permissions(o1, o2) ==
    LET r == CheckPermissionsTry(o1, o2)
    IN  IF r.raised THEN Return([error |-> r.exc]) ELSE r

\* what operation op returns once its HTTP calls were answered by answers
OpResult(v, op, filename, answers) ==
    CASE op = "test_connection" -> test_connection(answers[1])
      [] op = "upload_file" -> upload_file(v, filename, answers[1])
      [] op = "upload_file_v1" -> upload_file_v1(filename, answers[1])
      [] op = "query" -> query(v, answers[1])
      [] op = "list_documents" -> list_documents(v, answers[1])
      [] op = "check_permissions" -> check_permissions(answers[1], answers[2])

\* MoreRequests with one retry after a transport failure
MoreRequestsRetry(op, answers) ==
    \/ op = "check_permissions" /\ Len(answers) = 1
    \/ op # "check_permissions" /\ Len(answers) = 1 /\ answers[1].kind = "transport"

\* whether op, having received answers, sends a further request:
\* check_permissions follows its list_documents call with the corpus check,
\* every other operation returns after its one answer
MoreRequests(op, answers) == op = "check_permissions" /\ Len(answers) = 1

(***************************************************************************)
(* A client call in progress: the request is sent (inflight), the caller   *)
(* blocks, the remote service answers or the transport fails.              *)
(***************************************************************************)
\* call.filename holds the argument of the call: the file name of an upload,
\* the text of a query; call.self the client it is made on; call.nreq the
\* requests it has sent; call.answers the outcomes of those answered so far
NoCall == [op |-> "none", filename |-> "", self |-> None, nreq |-> 0, answers |-> <<>>]
NoBatch ==
    [files |-> <<>>, method |-> "", i |-> 0, success_count |-> 0, attempts |-> <<>>,
     shown |-> <<>>, nreq |-> 0, status_text |-> None]

\* the extraction has not run
NoExtract == [response_data |-> None, metric_names |-> <<>>, metrics |-> None]

\* SelfAfter with upload_file taking Content-Type out of the shared headers
\* instead of building headers of its own
SelfAfterDropsContentType(op, c) ==
    IF op = "upload_file"
    THEN [c EXCEPT !.headers = @ \ {<<"Content-Type", "application/json">>}]
    ELSE c

\* the client object after op ran on it: no method assigns to a field of
\* self (upload_file and upload_file_v1 build their headers in a local dict)
SelfAfter(op, c) == c

\* op is called on client c. Sent(...) tells whether a request went out; when
\* building the request raised, the call has already returned
Sent(op, c, filename) == ~OpRequest(variant, op, c, filename).raised

StartCall(op, c, filename) ==
    LET rq == OpRequest(variant, op, c, filename)
    IN  IF rq.raised
        THEN /\ inflight' = inflight
             /\ call' = [op |-> op, filename |-> filename,
                         self |-> Some(SelfAfter(op, c)),
                         nreq |-> 0, answers |-> <<>>]
             /\ ret' = Some(UploadExcept(filename, rq))
        ELSE /\ inflight' = Append(inflight, rq.val)
             /\ call' = [op |-> op, filename |-> filename,
                         self |-> Some(SelfAfter(op, c)),
                         nreq |-> 1, answers |-> <<>>]
             /\ ret' = None

\* the request in flight is answered by o. Returned(o) tells whether the call
\* returns now
Returned(o) == ~MoreRequests(call.op, Append(call.answers, o))

Answer(o) ==
    LET answers == Append(call.answers, o)
    IN  IF MoreRequests(call.op, answers)
        THEN /\ inflight' =
                    Append(Tail(inflight),
                           IF call.op = "check_permissions"
                           THEN CorpusRequest(call.self[1])
                           ELSE OpRequest(variant, call.op, call.self[1],
                                          call.filename).val)
             /\ call' = [call EXCEPT !.answers = answers, !.nreq = @ + 1]
             /\ ret' = None
        ELSE /\ inflight' = Tail(inflight)
             /\ call' = [call EXCEPT !.answers = answers]
             /\ ret' = Some(OpResult(variant, call.op, call.filename, answers))

(***************************************************************************)
(* The client on its own: any operation called on a constructed client,    *)
(* answered in every way the remote service can answer.                    *)
(***************************************************************************)
InitClient ==
    /\ variant \in Variants
    /\ vectara_client \in
          {Some(VectaraClient(variant, k, cu, co)) :
              k \in ApiKeys \ {""}, cu \in CustomerIds \ {""}, co \in CorpusIds \ {""}}
    /\ connected = FALSE
    /\ uploaded_files_list = <<>>
    /\ chat_history = <<>>
    /\ pc = "idle"
    /\ inflight = <<>>
    /\ call = NoCall
    /\ ret = None
    /\ batch = NoBatch
    /\ extract = NoExtract
    /\ validated = None

Session == <<variant, vectara_client, connected, uploaded_files_list, chat_history>>

\* op is called on the client the session holds: the object the method runs
\* on is the one the session keeps
CallOnSession(op, filename) ==
    /\ StartCall(op, vectara_client[1], filename)
    /\ vectara_client' = Some(SelfAfter(op, vectara_client[1]))
    /\ UNCHANGED <<variant, connected, uploaded_files_list, chat_history, validated>>

ClientCall(op, filename) ==
    /\ pc = "idle"
    /\ op \in Ops(variant)
    /\ CallOnSession(op, filename)
    /\ pc' = IF Sent(op, vectara_client[1], filename) THEN "client_wait" ELSE "idle"
    /\ UNCHANGED <<batch, extract>>

ClientAnswer(o) ==
    /\ pc = "client_wait"
    /\ Answer(o)
    /\ pc' = IF Returned(o) THEN "idle" ELSE "client_wait"
    /\ validated' =
          IF call.op = "test_connection"
             /\ OpResult(variant, call.op, call.filename, <<o>>).val[1]
          THEN call.self ELSE validated
    /\ UNCHANGED <<Session, batch, extract>>

NextClient ==
    \/ \E op \in Ops(variant), f \in FileNames : ClientCall(op, f)
    \/ \E o \in Outcomes : ClientAnswer(o)

SpecClient == InitClient /\ [][NextClient]_vars

(***************************************************************************)
(* The Streamlit script: session state and button handlers.                *)
(***************************************************************************)
Init ==
    /\ variant \in Variants
    /\ vectara_client = None
    /\ connected = FALSE
    /\ uploaded_files_list = <<>>
    /\ chat_history = <<>>
    /\ pc = "idle"
    /\ inflight = <<>>
    /\ call = NoCall
    /\ ret = None
    /\ batch = NoBatch
    /\ extract = NoExtract
    /\ validated = None

\* the texts of the query box
QueryTexts == {"total revenue?"}

\* the selections of the file uploader: one to MaxBatch files
RECURSIVE Selections(_)
Selections(n) ==
    IF n = 0 THEN {<<>>}
    ELSE LET shorter == Selections(n - 1)
         IN  shorter \cup {Append(fs, f) : fs \in {x \in shorter : Len(x) = n - 1},
                                          f \in FileNames}

\* a handler that makes no client call: the locals of the last run are gone
NoLocals ==
    /\ inflight' = <<>>
    /\ call' = NoCall
    /\ ret' = None
    /\ batch' = NoBatch
    /\ extract' = NoExtract

\* the sidebar shows the connected controls
ShowsConnected == connected /\ vectara_client # None

\* ---- "Connect to Vectara"

ConnectMissingField(api_key, customer_id, corpus_id) ==
    /\ pc = "idle"
    /\ "" \in {api_key, customer_id, corpus_id}
    /\ NoLocals
    /\ UNCHANGED <<Session, pc, validated>>

\* app.py: initialize_vectara constructs the client and tests the connection
Connect(api_key, customer_id, corpus_id) ==
    /\ pc = "idle"
    /\ variant = "app"
    /\ "" \notin {api_key, customer_id, corpus_id}
    /\ StartCall("test_connection",
                 VectaraClient(variant, api_key, customer_id, corpus_id), "")
    /\ pc' = "connect_wait"
    /\ batch' = NoBatch
    /\ extract' = NoExtract
    /\ UNCHANGED <<Session, validated>>

\* initialize_vectara handing out the client whatever the test returned
InitializeVectaraUnchecked(c, r) == <<Some(c), None>>

\* initialize_vectara of app.py, r being what test_connection returned on the
\* client c it constructed: (client, None) or (None, message)
initialize_vectara(c, r) ==
    IF r.val[1] THEN <<Some(c), None>> ELSE <<None, Some(r.val[2])>>

\* ConnectAnswer storing the client and leaving the flag as it was
ConnectAnswerFlagForgotten(o) ==
    /\ pc = "connect_wait"
    /\ Answer(o)
    /\ LET got == initialize_vectara(call.self[1],
                                      OpResult(variant, call.op, call.filename, <<o>>))
       IN  IF got[1] # None
           THEN /\ vectara_client' = got[1]
                /\ validated' = got[1]
           ELSE UNCHANGED <<vectara_client, validated>>
    /\ pc' = "idle"
    /\ UNCHANGED <<variant, connected, uploaded_files_list, chat_history, batch,
                   extract>>

\* the Connect handler after initialize_vectara returned
ConnectAnswer(o) ==
    /\ pc = "connect_wait"
    /\ Answer(o)
    /\ LET got == initialize_vectara(call.self[1],
                                      OpResult(variant, call.op, call.filename, <<o>>))
       IN  IF got[1] # None
           THEN /\ vectara_client' = got[1]
                /\ connected' = TRUE
                /\ validated' = got[1]
           ELSE UNCHANGED <<vectara_client, connected, validated>>
    /\ pc' = "idle"
    /\ UNCHANGED <<variant, uploaded_files_list, chat_history, batch, extract>>

\* app1.py: initialize_vectara constructs the client and tests nothing
ConnectUntested(api_key, customer_id, corpus_id) ==
    /\ pc = "idle"
    /\ variant = "app1"
    /\ "" \notin {api_key, customer_id, corpus_id}
    /\ vectara_client' = Some(VectaraClient(variant, api_key, customer_id, corpus_id))
    /\ connected' = TRUE
    /\ NoLocals
    /\ UNCHANGED <<variant, uploaded_files_list, chat_history, pc, validated>>

\* Disconnect clearing the flag and keeping the client
DisconnectKeepsClient ==
    /\ pc = "idle"
    /\ connected
    /\ connected' = FALSE
    /\ validated' = None
    /\ NoLocals
    /\ UNCHANGED <<variant, vectara_client, uploaded_files_list, chat_history, pc>>

\* ---- "Disconnect"

Disconnect ==
    /\ pc = "idle"
    /\ ShowsConnected
    /\ vectara_client' = None
    /\ connected' = FALSE
    /\ validated' = None
    /\ NoLocals
    /\ UNCHANGED <<variant, uploaded_files_list, chat_history, pc>>

\* ---- "View Corpus Documents"

ViewDocuments ==
    /\ pc = "idle"
    /\ ShowsConnected
    /\ CallOnSession("list_documents", "")
    /\ pc' = "docs_wait"
    /\ batch' = NoBatch
    /\ extract' = NoExtract

ViewDocumentsAnswer(o) ==
    /\ pc = "docs_wait"
    /\ Answer(o)
    /\ pc' = "idle"
    /\ UNCHANGED <<Session, batch, extract, validated>>

\* ---- "Test Permissions" (app.py only)

TestPermissions ==
    /\ pc = "idle"
    /\ variant = "app"
    /\ ShowsConnected
    /\ CallOnSession("check_permissions", "")
    /\ pc' = "perms_wait"
    /\ batch' = NoBatch
    /\ extract' = NoExtract

TestPermissionsAnswer(o) ==
    /\ pc = "perms_wait"
    /\ Answer(o)
    /\ pc' = IF Returned(o) THEN "idle" ELSE "perms_wait"
    /\ UNCHANGED <<Session, batch, extract, validated>>

\* ---- "Upload to Vectara": the loop over the selected files

UploadMethods(v) ==
    IF v = "app" THEN {"V2 API (Recommended)", "V1 API (Alternative)"}
    ELSE {"V2 API (Recommended)"}

\* UploadOp switching to the other method after a file was refused
UploadOpFallback(method) ==
    IF batch.shown # <<>> /\ batch.shown[Len(batch.shown)].kind = "error"
    THEN (IF method = "V1 API (Alternative)" THEN "upload_file" ELSE "upload_file_v1")
    ELSE (IF method = "V1 API (Alternative)" THEN "upload_file_v1" ELSE "upload_file")

\* the client method the loop calls for the selected upload method
UploadOp(method) ==
    IF method = "V1 API (Alternative)" THEN "upload_file_v1" ELSE "upload_file"

\* NextIndex leaving the loop at the first failure
NextIndexAbort(i, success) == IF success THEN i + 1 ELSE Len(batch.files)

\* enumerate(uploaded_files): the index after the one just handled
NextIndex(i, success) == i + 1

\* the loop body after the upload call returned r for file
Recorded(b, file, r) ==
    [b EXCEPT
        !.success_count = IF r.val[1] THEN @ + 1 ELSE @,
        !.shown = Append(@, [kind |-> IF r.val[1] THEN "success" ELSE "error",
                             message |-> r.val[2]]),
        !.i = NextIndex(@, r.val[1])]

\* Remembered appending the name of every file uploaded, listed or not
RememberedAgain(list, file, r) == IF r.val[1] THEN Append(list, file) ELSE list

\* the uploaded-file list after the upload call returned r for file
Remembered(list, file, r) ==
    IF r.val[1] /\ file \notin Range(list) THEN Append(list, file) ELSE list

UploadClick(files, method) ==
    /\ pc = "idle"
    /\ connected
    /\ files # <<>>
    /\ method \in UploadMethods(variant)
    /\ batch' = [NoBatch EXCEPT !.files = files, !.method = method]
    /\ pc' = "upload_loop"
    /\ inflight' = <<>>
    /\ call' = NoCall
    /\ ret' = None
    /\ extract' = NoExtract
    /\ UNCHANGED <<Session, validated>>

\* AtLoopHead entering the next iteration while the upload call of the
\* current one has not returned
AtLoopHeadEarly(p) == p \in {"upload_loop", "upload_wait"}

\* the for loop is at the head of an iteration: the body of the previous one,
\* the upload call included, has run to its end
AtLoopHead(p) == p = "upload_loop"

\* one iteration: the upload method is called for the next file
UploadFile ==
    /\ AtLoopHead(pc)
    /\ batch.i < Len(batch.files)
    /\ LET file == batch.files[batch.i + 1]
           op == UploadOp(batch.method)
           c == vectara_client[1]
           b == [batch EXCEPT !.attempts = Append(@, file),
                              !.nreq = IF Sent(op, c, file) THEN @ + 1 ELSE @]
       IN  /\ StartCall(op, c, file)
           /\ vectara_client' = Some(SelfAfter(op, c))
           /\ IF Sent(op, c, file)
              THEN /\ pc' = "upload_wait"
                   /\ batch' = b
                   /\ UNCHANGED uploaded_files_list
              ELSE /\ pc' = "upload_loop"
                   /\ batch' = Recorded(b, file, UploadExcept(file, OpRequest(variant, op, c, file)))
                   /\ uploaded_files_list' =
                         Remembered(uploaded_files_list, file,
                                    UploadExcept(file, OpRequest(variant, op, c, file)))
    /\ UNCHANGED <<variant, connected, chat_history, extract, validated>>

UploadAnswer(o) ==
    /\ pc = "upload_wait"
    /\ Answer(o)
    /\ LET r == OpResult(variant, call.op, call.filename, <<o>>)
       IN  /\ batch' = Recorded(batch, call.filename, r)
           /\ uploaded_files_list' = Remembered(uploaded_files_list, call.filename, r)
    /\ pc' = "upload_loop"
    /\ UNCHANGED <<variant, vectara_client, connected, chat_history, extract, validated>>

\* after the loop: "Upload complete! {success_count}/{total_files} ..."
UploadReport ==
    /\ pc = "upload_loop"
    /\ batch.i >= Len(batch.files)
    /\ batch' = [batch EXCEPT !.status_text = Some(<<batch.success_count, Len(batch.files)>>)]
    /\ pc' = "idle"
    /\ UNCHANGED <<Session, inflight, call, ret, extract, validated>>

\* ---- "Search" and "Clear History"

Search(query_input) ==
    /\ pc = "idle"
    /\ connected
    /\ query_input # ""
    /\ Len(chat_history) < MaxHistory
    /\ CallOnSession("query", query_input)
    /\ pc' = "search_wait"
    /\ batch' = NoBatch
    /\ extract' = NoExtract

\* Truthy taking every error for no error
NeverTruthy(opt) == FALSE

\* "if error:" is taken for a non-empty error string. The entry appended to
\* the history is the query and its response (its timestamp is left out)
Truthy(opt) == opt # None /\ opt[1] # <<>>

SearchAnswer(o) ==
    /\ pc = "search_wait"
    /\ Answer(o)
    /\ LET r == OpResult(variant, call.op, call.filename, <<o>>)
       IN  chat_history' =
              IF Truthy(r.val[2]) THEN chat_history
              ELSE Append(chat_history, [query |-> call.filename, response |-> r.val[1]])
    /\ pc' = "idle"
    /\ UNCHANGED <<variant, vectara_client, connected, uploaded_files_list, batch,
                   extract, validated>>

ClearHistory ==
    /\ pc = "idle"
    /\ connected
    /\ chat_history' = <<>>
    /\ NoLocals
    /\ UNCHANGED <<variant, vectara_client, connected, uploaded_files_list, pc,
                   validated>>

(***************************************************************************)
(* extract_metrics_from_response. Snippet texts and metric names are        *)
(* sequences of characters here, because the patterns work on characters.   *)
(***************************************************************************)
\* the sentinel of a metric that was not found
NotAvailable ==
    <<"N", "/", "A">>

\* [:5], the snippets the extraction reads
SnippetsConsidered == 5

Digits == {"0", "1", "2", "3", "4", "5", "6", "7", "8", "9"}

\* re.IGNORECASE: letters are compared in lower case
Lower(ch) ==
    CASE ch = "A" -> "a" [] ch = "C" -> "c" [] ch = "D" -> "d"
      [] ch = "G" -> "g" [] ch = "L" -> "l" [] ch = "N" -> "n"
      [] ch = "P" -> "p" [] ch = "R" -> "r" [] ch = "S" -> "s"
      [] ch = "T" -> "t" [] ch = "U" -> "u"
      [] OTHER -> ch

\* the character at position i, "" past the end
CharAt(t, i) == IF i \in 1..Len(t) THEN t[i] ELSE ""

\* \s* : the first position from j on that holds no white space
RECURSIVE SkipSpaces(_, _)
SkipSpaces(t, j) == IF CharAt(t, j) = " " THEN SkipSpaces(t, j + 1) ELSE j

\* [..]? : one character of the set is taken when it is there
Optional(t, j, set) == IF CharAt(t, j) \in set THEN j + 1 ELSE j

\* the position after the most digits from j on, n at most
RECURSIVE SkipDigits(_, _, _)
SkipDigits(t, j, n) ==
    IF n > 0 /\ CharAt(t, j) \in Digits THEN SkipDigits(t, j + 1, n - 1) ELSE j

\* (?:,\d{3})* : the position after every group of a comma and three digits
RECURSIVE SkipThousands(_, _)
SkipThousands(t, j) ==
    IF CharAt(t, j) = "," /\ SkipDigits(t, j + 1, 3) = j + 4
    THEN SkipThousands(t, j + 4)
    ELSE j

\* (?:\.\d{2})? : the position after a point and two digits, when they are there
SkipCents(t, j) ==
    IF CharAt(t, j) = "." /\ SkipDigits(t, j + 1, 2) = j + 3 THEN j + 3 ELSE j

\* (\d{1,3}(?:,\d{3})*(?:\.\d{2})?) from position j: the position after the
\* number, j itself when no digit stands at j
NumberEnd(t, j) ==
    IF CharAt(t, j) \in Digits
    THEN SkipCents(t, SkipThousands(t, SkipDigits(t, j, 3)))
    ELSE j

\* what stands between the metric name and the number.
\* pattern 1: \s*[:\-]?\s*\$?\s*      pattern 2: \s*\(?\$?
BeforeNumber(n, t, j) ==
    IF n = 1
    THEN SkipSpaces(t, Optional(t, SkipSpaces(t,
             Optional(t, SkipSpaces(t, j), {":", "-"})), {"$"}))
    ELSE Optional(t, Optional(t, SkipSpaces(t, j), {"("}), {"$"})

\* The metric name is put into the pattern as it is, so its characters are
\* read as pattern syntax. Of that syntax the names modelled use the
\* parentheses: they group (and capture), and stand for no character.
Parens == {"(", ")"}

\* the characters of the name that stand for themselves
Literals(metric) == SelectSeq(metric, LAMBDA ch : ch \notin Parens)

\* the nesting depth after the first k characters of the name, -1 once a
\* closing parenthesis had no opening one
RECURSIVE Depth(_, _)
Depth(metric, k) ==
    IF k = 0 THEN 0
    ELSE LET d == Depth(metric, k - 1)
         IN  IF d < 0 THEN -1
             ELSE IF metric[k] = "(" THEN d + 1
             ELSE IF metric[k] = ")" THEN d - 1
             ELSE d

\* re.compile accepts the pattern: re.error is raised for a parenthesis
\* that is not balanced
Compiles(metric) == Depth(metric, Len(metric)) = 0

\* the name has a group of its own: group 1 of the match is then that group
\* and not the number
HasGroup(metric) == "(" \in Range(metric)
GroupOpen(metric) == CHOOSE p \in 1..Len(metric) :
                        metric[p] = "(" /\ \A q \in 1..(p - 1) : metric[q] # "("
GroupClose(metric) == CHOOSE p \in (GroupOpen(metric) + 1)..Len(metric) :
                        /\ Depth(metric, p) = 0
                        /\ \A q \in GroupOpen(metric)..(p - 1) : Depth(metric, q) > 0

\* the name matches the text at position i (case ignored)
NameMatchesAt(metric, t, i) ==
    LET lit == Literals(metric)
    IN  /\ i + Len(lit) - 1 <= Len(t)
        /\ \A k \in 1..Len(lit) : Lower(t[i + k - 1]) = Lower(lit[k])

\* pattern n matches the text at position i
MatchesAt(n, metric, t, i) ==
    /\ NameMatchesAt(metric, t, i)
    /\ CharAt(t, BeforeNumber(n, t, i + Len(Literals(metric)))) \in Digits

\* match.group(1) of the match of pattern n at position i
Group1(n, metric, t, i) ==
    IF HasGroup(metric)
    THEN SubSeq(t, i + Len(Literals(SubSeq(metric, 1, GroupOpen(metric)))),
                   i + Len(Literals(SubSeq(metric, 1, GroupClose(metric)))) - 1)
    ELSE LET k == BeforeNumber(n, t, i + Len(Literals(metric)))
         IN  SubSeq(t, k, NumberEnd(t, k) - 1)

\* re.search(pattern, combined_text, re.IGNORECASE): group 1 of the leftmost
\* match, None when the pattern matches nowhere
re_search(n, metric, t) ==
    LET at == {i \in 1..(Len(t) + 1) : MatchesAt(n, metric, t, i)}
    IN  IF at = {} THEN None
        ELSE Some(Group1(n, metric, t,
                         CHOOSE i \in at : \A j \in at : i <= j))

\* WithoutCommas leaving the text as it is
WithCommas(t) == t

\* .replace(",", "")
WithoutCommas(t) == SelectSeq(t, LAMBDA ch : ch # ",")

\* patterns: the first one is tried on the whole text before the second one
Patterns == <<1, 2>>

\* MetricValueFrom trying the second pattern before the first one
MetricValueFromSecondFirst(n, metric, t) ==
    LET first == re_search(1, metric, t)
        second == re_search(2, metric, t)
    IN  IF second # None THEN WithoutCommas(second[1])
        ELSE IF first # None THEN WithoutCommas(first[1])
        ELSE NotAvailable

\* the value recorded for a metric: the first pattern that matches decides
RECURSIVE MetricValueFrom(_, _, _)
MetricValueFrom(n, metric, t) ==
    IF n > Len(Patterns) THEN NotAvailable
    ELSE LET match == re_search(Patterns[n], metric, t)
         IN  IF match # None THEN WithoutCommas(match[1])
             ELSE MetricValueFrom(n + 1, metric, t)

\* combined_text: " " + text of each of the first snippets that has a text
RECURSIVE CombinedText(_)
CombinedText(results) ==
    IF results = <<>> THEN <<>>
    ELSE LET result == Head(results)
         IN  (IF result.has_text THEN <<" ">> \o result.text ELSE <<>>)
                \o CombinedText(Tail(results))

\* FirstOf reading one snippet more
FirstOfOneMore(seq, n) == SubSeq(seq, 1, IF Len(seq) < n + 1 THEN Len(seq) ELSE n + 1)

\* ...[:n]
FirstOf(seq, n) == SubSeq(seq, 1, IF Len(seq) < n THEN Len(seq) ELSE n)

\* "if response_data and 'search_results' in response_data"
HasSearchResults(response_data) ==
    response_data # None /\ "search_results" \in response_data[1].keys

NameRevenue ==
    <<"R", "e", "v", "e", "n", "u", "e">>

NameNetProfit ==
    <<"N", "e", "t", " ", "P", "r", "o", "f", "i", "t">>

NameGrossProfit ==
    <<"G", "r", "o", "s", "s", " ", "P", "r", "o", "f", "i", "t">>

NameTotalAssets ==
    <<"T", "o", "t", "a", "l", " ", "A", "s", "s", "e", "t", "s">>

NameTotalLiabilities ==
    <<"T", "o", "t", "a", "l", " ", "L", "i", "a", "b", "i", "l", "i", "t",
      "i", "e", "s">>

NameCosts ==
    <<"C", "o", "s", "t", "s">>

\* a name with a unit in parentheses
NameSalesUsd ==
    <<"S", "a", "l", "e", "s", " ", "(", "U", "S", "D", ")">>

\* a name with a parenthesis left open
NameCashEst ==
    <<"C", "a", "s", "h", " ", "(", "e", "s", "t">>

\* metric_names when the argument is None
DefaultMetricNames ==
    <<NameRevenue, NameNetProfit, NameGrossProfit, NameTotalAssets,
      NameTotalLiabilities>>

\* default_metrics of the comparison tab
default_metrics == <<NameRevenue, NameNetProfit, NameGrossProfit, NameTotalAssets>>

\* the metric_names arguments explored (None: the default names)
MetricLists ==
    {None, Some(<<NameRevenue, NameCosts>>), Some(<<NameSalesUsd>>),
     Some(<<NameCashEst>>), Some(<<NameCosts, <<>>>>)}

TextRevenue ==
    <<"R", "e", "v", "e", "n", "u", "e", ":", " ", "$", "1", ",", "2", "3",
      "4", ".", "5", "6">>

TextSales ==
    <<"s", "a", "l", "e", "s", " ", "u", "s", "d", " ", "7">>

TextCosts ==
    <<"C", "o", "s", "t", "s", " ", "(", "$", "9", ")">>

\* a number of five digits written without separators
TextRevenuePlain ==
    <<"R", "e", "v", "e", "n", "u", "e", ":", " ", "1", "2", "3", "4", "5">>

\* the label twice: before a number in parentheses, then before a number with
\* one decimal
TextCostsTwice ==
    <<"C", "o", "s", "t", "s", " ", "(", "9", ")", " ", "C", "o", "s", "t",
      "s", ":", " ", "1", "2", ".", "5">>

\* the texts a snippet of the response can carry
SnippetTexts ==
    {TextRevenue, TextSales, TextCosts, TextRevenuePlain, TextCostsTwice}

\* a result of the response: with a text, or without the 'text' key
WithText(text) == [has_text |-> TRUE, text |-> text]
WithoutText == [has_text |-> FALSE, text |-> <<>>]
Snippets == {WithoutText} \cup {WithText(t) : t \in SnippetTexts}

\* the snippets of a response at most, and those with a text among them
MaxSnippets == 6
MaxTexts == 2

\* a parsed response body: its keys and, under 'search_results', its snippets
Response(keys, results) == Some([keys |-> keys, search_results |-> results])
TextCount(results) == Cardinality({k \in DOMAIN results : results[k].has_text})

\* extract_metrics_from_response(response_data, metric_names): the table of
\* the metrics, or the exception that leaves the function (re.search compiles
\* the pattern of a metric when its turn comes; nothing catches re.error)
extract_metrics_from_response(response_data, metric_names) ==
    LET names == IF metric_names = None THEN DefaultMetricNames
                 ELSE metric_names[1]
    IN  IF ~HasSearchResults(response_data)
        THEN Return([name \in Range(names) |-> NotAvailable])
        ELSE IF \E k \in DOMAIN names : ~Compiles(names[k])
        THEN Raise(<<"re.error">>)
        ELSE LET combined_text ==
                     CombinedText(FirstOf(response_data[1].search_results,
                                          SnippetsConsidered))
             IN  Return([name \in Range(names) |->
                            MetricValueFrom(1, name, combined_text)])

\* ---- the comparison tab

\* the texts of the "Additional metrics" box
CustomMetricsInputs == {<<>>, <<"C", "o", "s", "t", "s", ",">>}

\* str.strip()
RECURSIVE StripLeft(_)
StripLeft(t) == IF t # <<>> /\ Head(t) = " " THEN StripLeft(Tail(t)) ELSE t

RECURSIVE StripRight(_)
StripRight(t) ==
    IF t # <<>> /\ t[Len(t)] = " " THEN StripRight(SubSeq(t, 1, Len(t) - 1)) ELSE t

Strip(t) == StripRight(StripLeft(t))

\* str.split(',')
RECURSIVE Split(_)
Split(t) ==
    LET commas == {k \in DOMAIN t : t[k] = ","}
    IN  IF commas = {} THEN <<t>>
        ELSE LET k == CHOOSE c \in commas : \A j \in commas : c <= j
             IN  <<SubSeq(t, 1, k - 1)>> \o Split(SubSeq(t, k + 1, Len(t)))

\* all_metrics: the default metrics and, when the box is not empty, its
\* comma-separated names, stripped
all_metrics(custom_metrics) ==
    IF custom_metrics = <<>> THEN default_metrics
    ELSE LET parts == Split(custom_metrics)
         IN  default_metrics \o [k \in DOMAIN parts |-> Strip(parts[k])]

\* the snippets of the query response of the comparison
UiResults == {<<>>, <<WithText(TextRevenue)>>}

\* ---- "Generate Comparison"

GenerateComparison(custom_metrics) ==
    /\ pc = "idle"
    /\ connected
    /\ CallOnSession("query", "financial statements showing: ...")
    /\ pc' = "compare_wait"
    /\ batch' = NoBatch
    /\ extract' = [NoExtract EXCEPT !.metric_names = Some(all_metrics(custom_metrics))]

\* "if not error and response:" the metrics are extracted from a response
\* that is not None and not an empty dict; otherwise st.error
GenerateComparisonAnswer(o, results) ==
    /\ pc = "compare_wait"
    /\ Answer(o)
    /\ LET r == OpResult(variant, call.op, call.filename, <<o>>)
           response == r.val[1]
           error == r.val[2]
       IN  IF ~Truthy(error) /\ response # None /\ response[1].keys # {}
           THEN LET response_data ==
                        Response(response[1].keys,
                                 IF "search_results" \in response[1].keys
                                 THEN results ELSE <<>>)
                IN  extract' =
                       [extract EXCEPT
                           !.response_data = response_data,
                           !.metrics = Some(extract_metrics_from_response(
                                               response_data, extract.metric_names))]
           ELSE extract' = extract
    /\ pc' = "idle"
    /\ UNCHANGED <<Session, batch, validated>>

Next ==
    \/ \E k \in ApiKeys, cu \in CustomerIds, co \in CorpusIds :
          \/ ConnectMissingField(k, cu, co)
          \/ Connect(k, cu, co)
          \/ ConnectUntested(k, cu, co)
    \/ \E o \in UiOutcomes :
          \/ ConnectAnswer(o)
          \/ ViewDocumentsAnswer(o)
          \/ TestPermissionsAnswer(o)
          \/ SearchAnswer(o)
    \/ \E o \in UiOutcomes, results \in UiResults :
          GenerateComparisonAnswer(o, results)
    \/ \E o \in UiUploadOutcomes : UploadAnswer(o)
    \/ Disconnect
    \/ ViewDocuments
    \/ TestPermissions
    \/ \E files \in Selections(MaxBatch), method \in UploadMethods(variant) :
          UploadClick(files, method)
    \/ UploadFile
    \/ UploadReport
    \/ \E q \in QueryTexts : Search(q)
    \/ ClearHistory
    \/ \E custom_metrics \in CustomMetricsInputs : GenerateComparison(custom_metrics)

Spec == Init /\ [][Next]_vars

(***************************************************************************)
(* The extraction on its own: extract_metrics_from_response applied to     *)
(* every response and every list of metric names of the bounded sets.      *)
(***************************************************************************)
\* the snippet lists of a response
ResultLists ==
    {rs \in UNION {[1..n -> Snippets] : n \in 0..MaxSnippets} :
        TextCount(rs) <= MaxTexts}

\* response_data: None, a body without 'search_results', a body with it
Responses ==
    {None, Response({}, <<>>)}
        \cup {Response({"search_results"}, rs) : rs \in ResultLists}

InitExtract ==
    /\ variant = "app"
    /\ vectara_client = None
    /\ connected = FALSE
    /\ uploaded_files_list = <<>>
    /\ chat_history = <<>>
    /\ pc = "idle"
    /\ inflight = <<>>
    /\ call = NoCall
    /\ ret = None
    /\ batch = NoBatch
    /\ validated = None
    /\ extract \in {[NoExtract EXCEPT !.response_data = rd] : rd \in Responses}

\* one call: the table is built from the arguments alone
Extract(metric_names) ==
    /\ extract.metrics = None
    /\ extract' =
          [extract EXCEPT
              !.metric_names = metric_names,
              !.metrics = Some(extract_metrics_from_response(
                                  extract.response_data, metric_names))]
    /\ UNCHANGED <<Session, pc, inflight, call, ret, batch, validated>>

\* the caller is done with the table: metrics is a local of the call, the
\* next call builds its own
DiscardTable ==
    /\ extract.metrics # None
    /\ extract' = [NoExtract EXCEPT !.response_data = extract.response_data]
    /\ UNCHANGED <<Session, pc, inflight, call, ret, batch, validated>>

NextExtract ==
    \/ \E metric_names \in MetricLists : Extract(metric_names)
    \/ DiscardTable

SpecExtract == InitExtract /\ [][NextExtract]_vars

(***************************************************************************)
(* Vocabulary of the properties.                                           *)
(***************************************************************************)
ClientOps == {"test_connection", "upload_file", "upload_file_v1", "query",
              "list_documents"}

\* the call has returned (or raised) to its caller
CallDone == call.op # "none" /\ ret # None

\* the outcome of the call's last HTTP request
Answered == call.answers # <<>>
LastAnswer == call.answers[Len(call.answers)]
AnsweredHttp == Answered /\ LastAnswer.kind = "http"
AnsweredStatus(codes) == AnsweredHttp /\ LastAnswer.status \in codes

\* the failure text of a returned pair: the message of an (ok, message) pair,
\* the error of a (result, error) pair ("" when the error is None)
FailureText(op, val) ==
    IF op \in {"query", "list_documents"}
    THEN (IF val[2] = None THEN <<>> ELSE val[2][1])
    ELSE val[2]

\* the pair reports a failure
Failed(op, val) ==
    IF op \in {"query", "list_documents"} THEN val[1] = None /\ val[2] # None
    ELSE val[1] = FALSE

EndsWith(msg, tail) ==
    /\ Len(tail) <= Len(msg)
    /\ SubSeq(msg, Len(msg) - Len(tail) + 1, Len(msg)) = tail

NamesUnauthorized(msg) == "Unauthorized" \in Range(msg)
NamesForbidden(msg) == "Forbidden" \in Range(msg)
NamesNotFound(msg) == \E i \in 1..(Len(msg) - 1) : msg[i] = "Not" /\ msg[i + 1] = "Found"

\* the message names the category of status code and no other one
NamesCategory(code, msg) ==
    /\ NamesUnauthorized(msg) <=> code = 401
    /\ NamesForbidden(msg) <=> code = 403
    /\ NamesNotFound(msg) <=> code = 404

(***************************************************************************)
(* C1.  test_connection returns ok = TRUE exactly when the corpus check    *)
(* answers HTTP 200; for 401, 403 and 404 it returns ok = FALSE with a     *)
(* message naming the unauthorized, forbidden and not-found category; for  *)
(* every other status it returns ok = FALSE with the status code and the   *)
(* text the server sent.                                                   *)
(***************************************************************************)
C1_TestConnectionCategories ==
    (call.op = "test_connection" /\ CallDone) =>
        LET ok == ret[1].val[1]
            msg == ret[1].val[2]
        IN  /\ ~ret[1].raised
            /\ ok <=> AnsweredStatus({200})
            /\ AnsweredStatus({401, 403, 404}) =>
                  ~ok /\ NamesCategory(LastAnswer.status, msg)
            /\ AnsweredStatus(Statuses \ {200, 401, 403, 404}) =>
                  /\ ~ok
                  /\ StatusStr(LastAnswer.status) \in Range(msg)
                  /\ EndsWith(msg, LastAnswer.text)

C1_Witness ==
    /\ call.op = "test_connection" /\ CallDone
    /\ AnsweredStatus({404})
    /\ ret[1].val = <<FALSE, <<"404", "Not", "Found", "-", "Invalid", "Corpus", "ID">>>>

(***************************************************************************)
(* C2.  For every HTTP status in {401, 403, 404} answered to an upload,    *)
(* under either upload strategy, the upload returns ok = FALSE with a      *)
(* message naming the category of that status.                             *)
(***************************************************************************)
C2_UploadNamesCategory ==
    (call.op \in UploadOps /\ CallDone /\ AnsweredStatus({401, 403, 404})) =>
        /\ ret[1].val[1] = FALSE
        /\ NamesCategory(LastAnswer.status, ret[1].val[2])

(***************************************************************************)
(* C3.  An upload answered with status 200 or 201 returns ok = TRUE and a  *)
(* message containing the file name; an upload answered with any other     *)
(* status returns ok = FALSE.                                              *)
(***************************************************************************)
C3_UploadSuccess ==
    (call.op \in UploadOps /\ CallDone) =>
        /\ AnsweredStatus({200, 201}) =>
              ret[1].val[1] = TRUE /\ call.filename \in Range(ret[1].val[2])
        /\ ~AnsweredStatus({200, 201}) => ret[1].val[1] = FALSE

C3_Witness ==
    /\ call.op = "upload_file_v1" /\ CallDone
    /\ AnsweredStatus({201})
    /\ ret[1].val = <<TRUE, <<"Successfully", "uploaded:", call.filename>>>>

(***************************************************************************)
(* C4.  test_connection, upload_file, upload_file_v1, query and            *)
(* list_documents return a pair whatever the remote call does (a transport *)
(* failure and a malformed body included); no exception leaves them.       *)
(***************************************************************************)
C4_NeverRaises ==
    /\ (call.op \in ClientOps /\ pc = "idle") => ret # None
    /\ (call.op \in ClientOps /\ CallDone) =>
          ~ret[1].raised /\ Len(ret[1].val) = 2

C4_Witness ==
    /\ call.op = "query" /\ CallDone
    /\ AnsweredStatus({200}) /\ ~JsonParses(LastAnswer.text)
    /\ ret[1] = Return(<<None, Some(<<"Error", "querying:">> \o JsonDecodeErrorText)>>)

(***************************************************************************)
(* C5.  For every outcome of the remote query call, query returns a pair   *)
(* (result, error) of which exactly one component is not None.             *)
(***************************************************************************)
C5_QueryExactlyOne ==
    (call.op = "query" /\ CallDone) =>
        (ret[1].val[1] # None) # (ret[1].val[2] # None)

(***************************************************************************)
(* C6.  Every remote call gives HTTP 401, 403 and 404 each its own         *)
(* category, and reports every other non-2xx status with the text the      *)
(* server sent.                                                            *)
(***************************************************************************)
C6_EveryCallClassifies ==
    (call.op \in ClientOps /\ CallDone /\ AnsweredHttp) =>
        LET msg == FailureText(call.op, ret[1].val)
        IN  /\ LastAnswer.status \in {401, 403, 404} =>
                  /\ Failed(call.op, ret[1].val)
                  /\ NamesCategory(LastAnswer.status, msg)
            /\ LastAnswer.status \in Statuses \ {200, 201, 401, 403, 404} =>
                  /\ Failed(call.op, ret[1].val)
                  /\ EndsWith(msg, LastAnswer.text)

(***************************************************************************)
(* C7.  In every remote operation a network failure (the HTTP call raises) *)
(* is reported as a failure of the generic error kind: the word "error"    *)
(* followed by the text of the exception, in a message that differs from   *)
(* the message of every HTTP-status failure of that operation from its     *)
(* first word on.                                                          *)
(***************************************************************************)
IsGenericError(msg, exc) ==
    /\ EndsWith(msg, exc)
    /\ \E i \in 1..(Len(msg) - Len(exc)) : msg[i] \in {"Error", "error:"}

C7_TransportFailureGeneric ==
    (call.op \in ClientOps /\ CallDone /\ Answered /\ LastAnswer.kind = "transport") =>
        LET msg == FailureText(call.op, ret[1].val)
        IN  /\ Failed(call.op, ret[1].val)
            /\ IsGenericError(msg, LastAnswer.exc)
            /\ \A o \in Outcomes :
                  (o.kind = "http" /\ o.status \notin {200, 201}) =>
                      LET other == OpResult(variant, call.op, call.filename, <<o>>).val
                      IN  /\ Failed(call.op, other)
                          /\ FailureText(call.op, other)[1] # msg[1]

C7_Witness ==
    /\ call.op = "list_documents" /\ CallDone
    /\ Answered /\ LastAnswer.kind = "transport"
    /\ ret[1].val = <<None, Some(<<"Error", "listing", "documents:">> \o LastAnswer.exc)>>

(***************************************************************************)
(* C8.  Every failure with HTTP 403, in whichever remote operation, yields *)
(* a message that names the permission category, carries the text the      *)
(* server sent when it sent one, and gives the remediation hint.           *)
(***************************************************************************)
NamesPermission(msg) ==
    Range(msg) \cap {"Forbidden", "permission.", "permissions", "permissions:"} # {}
HasHint(msg) == "Check" \in Range(msg)

C8_ForbiddenMessage ==
    (call.op \in ClientOps /\ CallDone /\ AnsweredStatus({403})) =>
        LET msg == FailureText(call.op, ret[1].val)
        IN  /\ Failed(call.op, ret[1].val)
            /\ NamesPermission(msg)
            /\ EndsWith(msg, LastAnswer.text)
            /\ HasHint(msg)

(***************************************************************************)
(* C9.  No remote call is retried.  As claimed: every call of the five     *)
(* operations issues exactly one HTTP request whatever its outcome, and    *)
(* the upload loop issues exactly one upload request per selected file.    *)
(***************************************************************************)
C9_ExactlyOneRequest ==
    /\ (call.op \in ClientOps /\ CallDone) => call.nreq = 1
    /\ batch.status_text # None => batch.nreq = Len(batch.files)

\* the requests of upload_file_v1 need customer and corpus id to be numbers
CanBuild(op, c) ==
    op = "upload_file_v1" => IntParses(c.customer_id) /\ IntParses(c.corpus_id)

IsPrefix(s, t) == Len(s) <= Len(t) /\ s = SubSeq(t, 1, Len(s))

(***************************************************************************)
(* C9, amended.  Every call of the five operations issues at most one HTTP *)
(* request and, once returned, has issued exactly one, except that         *)
(* upload_file_v1 issues none when the customer id or the corpus id is not *)
(* a number.  The upload loop calls the upload method once per selected    *)
(* file, in order, even when the call fails, and has issued one request    *)
(* per call that issued any.                                               *)
(***************************************************************************)
C9_NoRetry ==
    /\ call.op \in ClientOps =>
          /\ call.nreq <= 1
          /\ Len(inflight) <= call.nreq
          /\ CallDone =>
                call.nreq = IF CanBuild(call.op, call.self[1]) THEN 1 ELSE 0
    /\ batch.files # <<>> =>
          /\ IsPrefix(batch.attempts, batch.files)
          /\ batch.nreq <= Len(batch.attempts)
          /\ batch.status_text # None =>
                /\ batch.attempts = batch.files
                /\ batch.nreq =
                      IF CanBuild(UploadOp(batch.method), vectara_client[1])
                      THEN Len(batch.files) ELSE 0

C9_Witness ==
    /\ batch.status_text # None
    /\ Len(batch.files) = 2
    /\ batch.nreq = 2
    /\ batch.shown[1].kind = "error"
    /\ call.nreq = 1

(***************************************************************************)
(* C10.  The upload flow attempts all N selected files in the order given, *)
(* a failure on one file never prevents the attempt on the next, each      *)
(* file's outcome is shown on its own, and the final report counts exactly *)
(* the uploads that returned ok = TRUE out of N.                           *)
(***************************************************************************)
Successes(shown) == {k \in DOMAIN shown : shown[k].kind = "success"}

C10_BatchAttemptsAll ==
    batch.files # <<>> =>
        /\ IsPrefix(batch.attempts, batch.files)
        /\ Len(batch.shown) = batch.i
        /\ batch.i <= Len(batch.attempts)
        /\ \A k \in DOMAIN batch.shown :
              batch.shown[k].kind = "success"
                  <=> batch.shown[k].message = <<"Successfully", "uploaded:", batch.files[k]>>
        /\ (pc = "upload_loop" /\ Len(batch.attempts) < Len(batch.files)) =>
              ENABLED UploadFile
        /\ batch.status_text # None =>
              /\ batch.attempts = batch.files
              /\ Len(batch.shown) = Len(batch.files)
              /\ batch.status_text[1] =
                    <<Cardinality(Successes(batch.shown)), Len(batch.files)>>

C10_Witness ==
    /\ batch.status_text = Some(<<2, 3>>)
    /\ Len(batch.files) = 3
    /\ batch.shown[1].kind = "success"
    /\ batch.shown[2].kind = "error"
    /\ "403" \in Range(batch.shown[2].message)
    /\ batch.shown[3].kind = "success"

\* C11: at every moment at most one request is in flight and the caller is
\* blocked on it (nothing has returned, no handler is at a point where it can
\* act); every request a call has issued is answered before the next one
\* goes out; in a batch upload the request for file k+1 is in flight only
\* when the calls for files 1..k have returned and shown their results.
WaitStates == {"client_wait", "connect_wait", "docs_wait", "perms_wait",
               "upload_wait", "search_wait", "compare_wait"}

C11_OneCallInFlight ==
    /\ Len(inflight) <= 1
    /\ inflight # <<>> <=> pc \in WaitStates
    /\ inflight # <<>> => ret = None
    /\ call.nreq = Len(call.answers) + Len(inflight)
    /\ pc = "upload_wait" =>
          /\ Len(batch.attempts) = batch.i + 1
          /\ Len(batch.shown) = batch.i
          /\ batch.nreq \in 1..(batch.i + 1)

C11_Witness ==
    /\ pc = "upload_wait"
    /\ batch.files = <<"q1.pdf", "q2.pdf", "q1.pdf">>
    /\ batch.i = 1
    /\ batch.shown[1].kind = "error"
    /\ Len(inflight) = 1

\* ---- the extraction

\* the extraction has run on a response with snippets, and returned or raised
Extracted == extract.metrics # None
ExtractedTable == Extracted /\ ~extract.metrics[1].raised
SearchResults == extract.response_data[1].search_results
RequestedNames ==
    IF extract.metric_names = None THEN DefaultMetricNames
    ELSE extract.metric_names[1]

\* the name stands in the text, letter case ignored
Occurs(name, text) ==
    \E i \in 1..(Len(text) - Len(name) + 1) :
        \A k \in 1..Len(name) : Lower(text[i + k - 1]) = Lower(name[k])

\* the name stands in the text of the k-th snippet
OccursIn(name, results, k) ==
    k \in DOMAIN results /\ results[k].has_text /\ Occurs(name, results[k].text)

\* C12: the metric table is the one of the first five snippets alone: for a
\* response with more than five snippets, the table is the same when the
\* later snippets are removed and when the sixth is replaced by any other.
C12_FirstFiveOnly ==
    (Extracted /\ HasSearchResults(extract.response_data)) =>
        /\ extract.metrics[1] =
              extract_metrics_from_response(
                  Response({"search_results"},
                           SubSeq(SearchResults, 1,
                                  IF Len(SearchResults) < 5 THEN Len(SearchResults)
                                  ELSE 5)),
                  extract.metric_names)
        /\ Len(SearchResults) > 5 =>
              \A s \in Snippets :
                  extract.metrics[1] =
                      extract_metrics_from_response(
                          Response({"search_results"},
                                   [SearchResults EXCEPT ![6] = s]),
                          extract.metric_names)

C12_Witness ==
    /\ ExtractedTable
    /\ HasSearchResults(extract.response_data)
    /\ Len(SearchResults) = 6
    /\ SearchResults[6] = WithText(TextRevenue)
    /\ SearchResults[2] = WithText(TextCosts)
    /\ extract.metric_names = Some(<<NameRevenue, NameCosts>>)
    /\ extract.metrics[1].val[NameRevenue] = NotAvailable
    /\ extract.metrics[1].val[NameCosts] = <<"9">>

\* C13: when the first considered snippet that names Revenue has the text
\* "Revenue: $1,234.56", the value recorded for "Revenue" is "1234.56".
C13_RevenueValue ==
    (/\ ExtractedTable
     /\ HasSearchResults(extract.response_data)
     /\ NameRevenue \in Range(RequestedNames)
     /\ \E k \in 1..5 :
           /\ k \in DOMAIN SearchResults
           /\ SearchResults[k] = WithText(TextRevenue)
           /\ \A j \in 1..(k - 1) : ~OccursIn(NameRevenue, SearchResults, j))
        => extract.metrics[1].val[NameRevenue] = <<"1", "2", "3", "4", ".", "5", "6">>

C13_Witness ==
    /\ ExtractedTable
    /\ extract.response_data = Response({"search_results"}, <<WithText(TextRevenue)>>)
    /\ extract.metric_names = Some(<<NameRevenue, NameCosts>>)
    /\ extract.metrics[1].val[NameRevenue] = <<"1", "2", "3", "4", ".", "5", "6">>
    /\ extract.metrics[1].val[NameCosts] = NotAvailable

\* C14: the extraction never raises, and a requested name that stands in the
\* text of none of the first five snippets gets the sentinel "N/A".
C14_AbsentNameNotAvailable ==
    Extracted =>
        /\ ~extract.metrics[1].raised
        /\ \A name \in Range(RequestedNames) :
              (\A k \in 1..5 :
                  ~(HasSearchResults(extract.response_data)
                    /\ OccursIn(name, SearchResults, k)))
                 => extract.metrics[1].val[name] = NotAvailable

\* ---- validated connections

\* the operations that use the remote corpus (all but the connectivity check)
CorpusOps == {"upload_file", "upload_file_v1", "query", "list_documents",
              "check_permissions"}

\* C16: an operation other than the connectivity check, called on a client
\* that never passed a connectivity check, issues no request.
C16_UnvalidatedFailsFast ==
    (call.op \in CorpusOps /\ validated = None) => call.nreq = 0 /\ inflight = <<>>

\* C17: the session is connected only with a client whose connectivity check
\* succeeded since the last disconnect, and every upload, query, listing or
\* permission check runs on such a client.
C17_ConnectedOnlyValidated ==
    /\ connected => validated # None /\ validated = vectara_client
    /\ call.op \in CorpusOps => validated # None /\ validated = call.self

\* ---- check_permissions

ReportFields == {"can_read", "can_view_corpus", "read_error"}

\* the requests check_permissions has in flight are its two probes, both GET
ProbesOnly ==
    call.op = "check_permissions" =>
        \A k \in DOMAIN inflight :
            /\ inflight[k].method = "GET"
            /\ inflight[k] \in {ListDocumentsRequest(call.self[1]),
                                CorpusRequest(call.self[1])}

\* C18 as stated: check_permissions sends its two probes only, and its
\* report has the fields can_read, can_view_corpus and read_error whatever
\* the probes answer.
C18_ReportAlwaysThreeFields ==
    /\ ProbesOnly
    /\ (call.op = "check_permissions" /\ CallDone) =>
          DOMAIN ret[1].val = ReportFields

\* C18: check_permissions sends its two probes only (the listing, then the
\* corpus check, both GET); its report has the fields can_read,
\* can_view_corpus and read_error when the corpus check was answered over
\* HTTP, and the single field error (the text of the exception) when the
\* corpus check got no answer.
C18_ProbesOnlyAndReport ==
    /\ ProbesOnly
    /\ (call.op = "check_permissions" /\ CallDone) =>
          /\ ~ret[1].raised
          /\ Len(call.answers) = 2
          /\ IF call.answers[2].kind = "http"
             THEN DOMAIN ret[1].val = ReportFields
             ELSE ret[1].val = [error |-> call.answers[2].exc]

C18_Witness ==
    /\ call.op = "check_permissions"
    /\ CallDone
    /\ call.answers[1].kind = "http" /\ call.answers[1].status = 403
    /\ call.answers[2].kind = "http" /\ call.answers[2].status = 200
    /\ DOMAIN ret[1].val = ReportFields
    /\ ~ret[1].val.can_read
    /\ ret[1].val.can_view_corpus

\* ---- the client object

\* C19: no call of a client method changes the client: its api key, customer
\* id, corpus id, base url and headers after any step of any call are the
\* ones it was constructed with.
C19_ClientImmutable == [][vectara_client' = vectara_client]_vars

C19_Witness ==
    /\ call.op = "upload_file"
    /\ CallDone
    /\ AnsweredStatus({200, 201})
    /\ vectara_client = call.self
    /\ vectara_client[1] \in Clients
    /\ <<"Content-Type", "application/json">> \in vectara_client[1].headers

\* ---- disconnect

\* C20: while the session is not connected (at the start and after every
\* disconnect, until a connect attempt succeeds) it holds no client, no
\* upload, query, listing or permission check is running, and none can be
\* started.
C20_DisconnectedHoldsNothing ==
    ~connected =>
        /\ vectara_client = None
        /\ validated = None
        /\ call.op \notin CorpusOps
        /\ pc \in {"idle", "connect_wait"}
        /\ \A k \in DOMAIN inflight : inflight[k] = CorpusRequest(call.self[1])
        /\ ~ENABLED ViewDocuments
        /\ ~ENABLED TestPermissions
        /\ ~ENABLED UploadFile
        /\ ~ENABLED (\E files \in Selections(MaxBatch), method \in UploadMethods(variant) :
                        UploadClick(files, method))
        /\ ~ENABLED (\E q \in QueryTexts : Search(q))
        /\ ~ENABLED (\E custom_metrics \in CustomMetricsInputs :
                        GenerateComparison(custom_metrics))

\* disconnected after an upload succeeded: the list of uploaded files is
\* still there, the client is gone
C20_Witness ==
    /\ ~connected
    /\ vectara_client = None
    /\ pc = "idle"
    /\ uploaded_files_list # <<>>
    /\ call = NoCall

\* ---- the patterns

\* the buffer the patterns are searched in: the texts of the first five
\* snippets, each after a blank
ConsideredText ==
    CombinedText(SubSeq(SearchResults, 1,
                        IF Len(SearchResults) < 5 THEN Len(SearchResults) ELSE 5))

\* C22: whenever the first pattern matches somewhere in the buffer, the value
\* recorded for the metric is the capture of the first pattern without its
\* commas, also when the second pattern matches earlier in the buffer: for
\* "Costs (9) Costs: 12.5" the value of Costs comes from "Costs: 12.5" and
\* not from "Costs (9)".
C22_FirstPatternWins ==
    (ExtractedTable /\ HasSearchResults(extract.response_data)) =>
        /\ \A name \in Range(RequestedNames) :
              LET first == re_search(1, name, ConsideredText)
              IN  first # None =>
                    extract.metrics[1].val[name] =
                        SelectSeq(first[1], LAMBDA ch : ch # ",")
        /\ (SearchResults = <<WithText(TextCostsTwice)>>
               /\ NameCosts \in Range(RequestedNames))
              => extract.metrics[1].val[NameCosts] = <<"1", "2">>

C22_Witness ==
    /\ ExtractedTable
    /\ extract.response_data = Response({"search_results"}, <<WithText(TextCostsTwice)>>)
    /\ extract.metric_names = Some(<<NameCosts, <<>>>>)
    /\ re_search(2, NameCosts, ConsideredText) = Some(<<"9">>)
    /\ extract.metrics[1].val[NameCosts] = <<"1", "2">>

\* ---- the metric table

\* a numeric string: digits with at most one decimal point inside
IsNumeric(value) ==
    /\ value # <<>>
    /\ value[1] \in Digits
    /\ value[Len(value)] \in Digits
    /\ \A k \in DOMAIN value : value[k] \in Digits \cup {"."}
    /\ Cardinality({k \in DOMAIN value : value[k] = "."}) <= 1

\* C23: the table a call returns has exactly the requested names as keys,
\* and each value is a numeric string or the sentinel "N/A".
C23_TableOfRequestedNames ==
    ExtractedTable =>
        /\ DOMAIN extract.metrics[1].val = Range(RequestedNames)
        /\ \A name \in Range(RequestedNames) :
              \/ extract.metrics[1].val[name] = NotAvailable
              \/ IsNumeric(extract.metrics[1].val[name])

\* ---- responses without text

\* none of the first five snippets has a text (an empty list included)
NoConsideredText ==
    \A k \in 1..5 : k \in DOMAIN SearchResults => ~SearchResults[k].has_text

\* C29: for a response that is None, has no 'search_results' key, or has no
\* text in its first five snippets, the extraction returns, without raising,
\* the sentinel for every requested name.
C29_SentinelWithoutText ==
    (Extracted /\ (~HasSearchResults(extract.response_data) \/ NoConsideredText)) =>
        /\ ~extract.metrics[1].raised
        /\ extract.metrics[1].val = [name \in Range(RequestedNames) |-> NotAvailable]

\* ---- the number recorded

\* the position after the number written from position k on: its digits,
\* commas and points
RECURSIVE WrittenEnd(_, _)
WrittenEnd(t, k) ==
    IF CharAt(t, k) \in Digits \cup {",", "."} THEN WrittenEnd(t, k + 1) ELSE k

\* the number written after the label where pattern n matches first
WrittenNumber(n, name, t) ==
    LET at == {i \in 1..(Len(t) + 1) : MatchesAt(n, name, t, i)}
        i == CHOOSE a \in at : \A b \in at : a <= b
        k == BeforeNumber(n, t, i + Len(Literals(name)))
    IN  SubSeq(t, k, WrittenEnd(t, k) - 1)

\* C30: the value recorded for a name (one without a group of its own) is
\* the whole number written after the label, its commas removed.
C30_WholeNumber ==
    (ExtractedTable /\ HasSearchResults(extract.response_data)) =>
        \A name \in Range(RequestedNames) :
            (~HasGroup(name) /\ extract.metrics[1].val[name] # NotAvailable) =>
                LET n == IF re_search(1, name, ConsideredText) # None THEN 1 ELSE 2
                IN  extract.metrics[1].val[name] =
                        SelectSeq(WrittenNumber(n, name, ConsideredText),
                                  LAMBDA ch : ch # ",")

\* ---- the session

\* C24: the session is connected exactly when it holds a client.
C24_ConnectedIffClient == connected <=> vectara_client # None

\* connected again, to the other corpus, after a disconnect that followed an
\* upload
C24_Witness ==
    /\ connected
    /\ vectara_client # None
    /\ vectara_client[1].corpus_id = "hello_world"
    /\ uploaded_files_list # <<>>
    /\ pc = "idle"
    /\ call.op \in {"none", "test_connection"}

\* the step ends a connect attempt that failed: the connectivity check came
\* back not ok, or a field was left empty
FailedConnect ==
    \/ /\ pc = "connect_wait"
       /\ ret' # None
       /\ ~ret'[1].val[1]
    \/ \E k \in ApiKeys, cu \in CustomerIds, co \in CorpusIds :
          ConnectMissingField(k, cu, co)

\* C25: a failed connect attempt changes nothing of the session: client,
\* flag, uploaded-file list and history are the ones before the attempt.
C25_FailedConnectChangesNothing == [][FailedConnect => UNCHANGED Session]_vars

\* a connect attempt with other credentials failed while the session was
\* connected: the earlier client is still there
C25_Witness ==
    /\ pc = "idle"
    /\ call.op = "test_connection"
    /\ CallDone
    /\ ~ret[1].val[1]
    /\ connected
    /\ vectara_client # None
    /\ vectara_client # call.self
    /\ validated = vectara_client

\* ---- the uploaded-file list

NoDuplicates(list) == \A a, b \in DOMAIN list : list[a] = list[b] => a = b

\* C26: the uploaded-file list never holds a name twice, and a step changes
\* it in one way only: the name of the file whose upload just returned
\* ok = True (after a 200 or 201 answer), not yet in the list, is appended.
\* No step removes or reorders an entry.
C26_UploadedListGrowsByOk ==
    [][/\ NoDuplicates(uploaded_files_list')
       /\ uploaded_files_list' # uploaded_files_list =>
             /\ pc = "upload_wait"
             /\ call'.op \in UploadOps
             /\ ret' # None
             /\ ret'[1].val[1]
             /\ call'.answers[Len(call'.answers)].kind = "http"
             /\ call'.answers[Len(call'.answers)].status \in {200, 201}
             /\ call'.filename \notin Range(uploaded_files_list)
             /\ uploaded_files_list' = Append(uploaded_files_list, call'.filename)
       /\ (pc = "upload_wait" /\ ret' # None /\ ret'[1].val[1]) =>
             call'.filename \in Range(uploaded_files_list')]_vars

\* two files uploaded with success, then a disconnect: the list still
\* holds both, in the order of their uploads
C26_Witness ==
    /\ uploaded_files_list = <<"q2.pdf", "q1.pdf">>
    /\ ~connected
    /\ pc = "idle"

\* ---- the conversation log

PermissionsDone == call.op = "check_permissions" /\ CallDone

\* list_documents, answered by o, returned no error: a 200 answer whose body
\* is JSON
ListedWithoutError(o) == o.kind = "http" /\ o.status = 200 /\ JsonParses(o.text)

\* C28 as stated: whatever the two probes answered, the report says
\* can_read = True exactly when list_documents returned no error, and
\* can_view_corpus = True exactly when the corpus check answered 200.
C28_ReportForEveryAnswer ==
    PermissionsDone =>
        /\ ("can_read" \in DOMAIN ret[1].val /\ ret[1].val.can_read)
              <=> ListedWithoutError(call.answers[1])
        /\ ("can_view_corpus" \in DOMAIN ret[1].val /\ ret[1].val.can_view_corpus)
              <=> (call.answers[2].kind = "http" /\ call.answers[2].status = 200)

\* C28: when the corpus check was answered over HTTP, the report says
\* can_read = True exactly when list_documents returned no error,
\* can_view_corpus = True exactly when the corpus check answered 200, and
\* read_error is None exactly when can_read is True, the error text of
\* list_documents otherwise. When the corpus check raised, the report has
\* none of the three fields.
C28_ReportWhenCorpusAnswered ==
    PermissionsDone =>
        IF call.answers[2].kind = "http"
        THEN /\ ret[1].val.can_read <=> ListedWithoutError(call.answers[1])
             /\ ret[1].val.can_view_corpus <=> call.answers[2].status = 200
             /\ ret[1].val.read_error = None <=> ret[1].val.can_read
             /\ ~ret[1].val.can_read =>
                   /\ ret[1].val.read_error =
                         list_documents("app", call.answers[1]).val[2]
                   /\ ret[1].val.read_error # None
                   /\ ret[1].val.read_error[1] # <<>>
        ELSE DOMAIN ret[1].val \cap ReportFields = {}

\* the listing works and the corpus check is answered 201: can_read without
\* can_view_corpus
C28_Witness ==
    /\ PermissionsDone
    /\ ListedWithoutError(call.answers[1])
    /\ call.answers[2].kind = "http"
    /\ call.answers[2].status = 201
    /\ ret[1].val.can_read
    /\ ~ret[1].val.can_view_corpus
    /\ ret[1].val.read_error = None

\* ---- the upload strategy

\* the upload call that just returned showed its result for the file
UploadShown ==
    /\ pc = "upload_loop"
    /\ call.op \in UploadOps
    /\ CallDone
    /\ batch.i >= 1

\* C21: every file of a batch is sent with the method selected for the batch
\* (V1: upload_file_v1, otherwise upload_file), a refused file included, and
\* with one request at most; the result shown for a file is a success only
\* after a 200 or 201 answer, and after a 403 answer it is an error, not
\* counted among the successes.
C21_SelectedStrategyOnly ==
    /\ (pc \in {"upload_loop", "upload_wait"} /\ call.op # "none") =>
          call.op = (IF batch.method = "V1 API (Alternative)"
                     THEN "upload_file_v1" ELSE "upload_file")
    /\ pc = "upload_wait" =>
          inflight =
             <<IF batch.method = "V1 API (Alternative)"
               THEN UploadFileV1Request(call.self[1], call.filename).val
               ELSE UploadFileRequest(variant, call.self[1], call.filename)>>
    /\ batch.nreq <= Len(batch.attempts)
    /\ UploadShown =>
          /\ batch.shown[batch.i].kind = "success" => AnsweredStatus({200, 201})
          /\ AnsweredStatus({403}) =>
                /\ batch.shown[batch.i].kind = "error"
                /\ batch.shown[batch.i].message # <<>>
                /\ batch.success_count = Cardinality(Successes(batch.shown))

\* the first file was refused with 403; the second one is on its way with
\* the same method
C21_Witness ==
    /\ pc = "upload_wait"
    /\ batch.method = "V2 API (Recommended)"
    /\ batch.i = 1
    /\ batch.shown[1].kind = "error"
    /\ "403" \in Range(batch.shown[1].message)
    /\ call.op = "upload_file"
    /\ call.filename = batch.files[2]

====
